---------------------------- MODULE Spec2Model ----------------------------
(***************************************************************************)
(* Model of file_creator.py: a mail merge that reads a CSV table and a     *)
(* DOCX template, and writes one populated document per row.               *)
(*                                                                         *)
(* Text is a sequence of one-character strings.  The Persian literals of   *)
(* the source are written in an ASCII transliteration, one letter per      *)
(* source character:                                                       *)
(*   s=sin t=te w=vav n=nun A=alef-madda d=dal r=re g=gaf y=ye h=he        *)
(*   l=lam f=fe k=kaf a=alef S=shin m=mim, and " " is the space.           *)
(* A document is a record of paragraphs, tables and sections; a paragraph  *)
(* is the sequence of the texts of its runs; a table is a sequence of rows *)
(* of cells, a cell a sequence of paragraphs.                              *)
(***************************************************************************)
EXTENDS Integers, Sequences, FiniteSets, TLC

VARIABLES
    pc,                \* position of main: "start", "read_template", "read_csv", "loop", "done", "exit"
    output_dir,        \* TRUE when the directory generated_documents exists
    template_file,     \* content of "Forward Template.docx" on disk
    csv_file,          \* content of "csv.csv": [columns, rows], cells as raw text
    heap,              \* document objects in memory, by reference
    template_doc,      \* reference of the loaded template (0 before loading)
    df,                \* the DataFrame: sequence of rows, a row maps column -> cell
    index,             \* number of rows the loop has gone through
    successful_count,
    failed_count,
    temp_file,         \* "temp_template.docx": <<>> when absent, else <<content>>
    files,             \* generated_documents: filename -> content
    log,               \* the per-row lines main prints: [kind, filename]
    fault              \* where the environment raised in the last row ("none": nowhere)

vars == <<pc, output_dir, template_file, csv_file, heap, template_doc, df, index,
          successful_count, failed_count, temp_file, files, log, fault>>

---------------------------------------------------------------------------
(* Bounds of the model *)

MaxRows == 3

---------------------------------------------------------------------------
(* Generic sequence helpers *)

Range(s) == { s[i] : i \in DOMAIN s }

IsPrefix(p, s) == Len(p) <= Len(s) /\ SubSeq(s, 1, Len(p)) = p

\* Python's `old in text`
Contains(text, old) ==
    \E i \in 0..(Len(text) - Len(old)) : SubSeq(text, i + 1, i + Len(old)) = old

RECURSIVE StrReplace(_, _, _)
\* Python's text.replace(old, new) for a non-empty old: leftmost,
\* non-overlapping occurrences, scanning left to right
StrReplace(text, old, new) ==
    IF Len(text) < Len(old) THEN text
    ELSE IF IsPrefix(old, text)
         THEN new \o StrReplace(SubSeq(text, Len(old) + 1, Len(text)), old, new)
         ELSE <<Head(text)>> \o StrReplace(Tail(text), old, new)

Digits == <<"0", "1", "2", "3", "4", "5", "6", "7", "8", "9">>

RECURSIVE IntToStr(_)
\* str() of a non-negative int, as the f-strings of generate_filename format it
IntToStr(n) ==
    IF n < 10 THEN <<Digits[n + 1]>>
    ELSE IntToStr(n \div 10) \o <<Digits[(n % 10) + 1]>>

---------------------------------------------------------------------------
(* Cells of the table *)

\* the float NaN pandas stores for a missing cell
NaN == <<"NaN">>

\* the raw cell texts read_csv turns into NaN (its default na_values; the
\* ones used here are the empty cell and "NA")
NAValues == { <<>>, <<"N", "A">> }

\* pd.read_csv(..., dtype=str): a cell is a str, or NaN when missing
ReadCell(raw) == IF raw \in NAValues THEN NaN ELSE raw

read_csv_file(file) ==
    [ i \in DOMAIN file.rows |->
        [ c \in file.columns |-> ReadCell(file.rows[i][c]) ] ]

\* row_data.get(key, default)
Get(row_data, key, default) ==
    IF key \in DOMAIN row_data THEN row_data[key] ELSE default

\* str(value) of a cell: str(float('nan')) is "nan"
Str(value) == IF value = NaN THEN <<"n", "a", "n">> ELSE value

---------------------------------------------------------------------------
(* The column names and the placeholders *)

Fields == { "address", "phone", "order_code", "name" }

ColPrefix == <<"s", "t", "w", "n", " ">>

Gyrndh == <<"g", "y", "r", "n", "d", "h">>

\* the bare labels, "stwn " followed by the column's name
BareLabel(f) ==
    CASE f = "address"    -> ColPrefix \o <<"A", "d", "r", "s", " ">> \o Gyrndh
      [] f = "phone"      -> ColPrefix \o <<"t", "l", "f", "n", " ">> \o Gyrndh
      [] f = "order_code" -> ColPrefix \o <<"k", "d", " ", "s", "f", "a", "r", "S">>
      [] f = "name"       -> ColPrefix \o <<"n", "a", "m", " ">> \o Gyrndh

BracketLabel(f) == <<"{">> \o BareLabel(f) \o <<"}">>

\* the dict of create_docx_from_template, in insertion order: the four
\* bracketed forms, then the four bare forms
FieldOrder == <<"address", "phone", "order_code", "name">>

Replacements(row_data) ==
    [ i \in 1..4 |-> <<BracketLabel(FieldOrder[i]), Str(Get(row_data, FieldOrder[i], <<>>))>> ]
    \o
    [ i \in 1..4 |-> <<BareLabel(FieldOrder[i]), Str(Get(row_data, FieldOrder[i], <<>>))>> ]

---------------------------------------------------------------------------
(* Substitution *)

\* one pass of the inner loop body on one run and one (placeholder, replacement)
ReplaceOne(text, pair) ==
    IF Contains(text, pair[1]) THEN StrReplace(text, pair[1], pair[2]) ELSE text

RECURSIVE ReplaceRun(_, _, _)
\* the inner loop: the pairs from the k-th on, applied in order to one run
ReplaceRun(text, replacements, k) ==
    IF k > Len(replacements) THEN text
    ELSE ReplaceRun(ReplaceOne(text, replacements[k]), replacements, k + 1)

RECURSIVE Join(_)
Join(runs) == IF runs = <<>> THEN <<>> ELSE Head(runs) \o Join(Tail(runs))

\* a variant that matches on the paragraph's joined text and puts the result
\* in the first run
replace_text_in_paragraph_joined(paragraph, replacements) ==
    IF paragraph = <<>> THEN paragraph
    ELSE [ i \in DOMAIN paragraph |->
            IF i = 1 THEN ReplaceRun(Join(paragraph), replacements, 1) ELSE <<>> ]

replace_text_in_paragraph(paragraph, replacements) ==
    [ i \in DOMAIN paragraph |-> ReplaceRun(paragraph[i], replacements, 1) ]

replace_text_in_table(table, replacements) ==
    [ r \in DOMAIN table |->
        [ c \in DOMAIN table[r] |->
            [ p \in DOMAIN table[r][c] |->
                replace_text_in_paragraph(table[r][c][p], replacements) ] ] ]

ReplaceInPart(part, replacements) ==
    [ paragraphs |-> [ p \in DOMAIN part.paragraphs |->
                         replace_text_in_paragraph(part.paragraphs[p], replacements) ],
      tables     |-> [ t \in DOMAIN part.tables |->
                         replace_text_in_table(part.tables[t], replacements) ] ]

find_and_replace_in_document(doc, replacements) ==
    [ paragraphs |-> [ p \in DOMAIN doc.paragraphs |->
                         replace_text_in_paragraph(doc.paragraphs[p], replacements) ],
      tables     |-> [ t \in DOMAIN doc.tables |->
                         replace_text_in_table(doc.tables[t], replacements) ],
      sections   |-> [ s \in DOMAIN doc.sections |->
                         [ header |-> ReplaceInPart(doc.sections[s].header, replacements),
                           footer |-> ReplaceInPart(doc.sections[s].footer, replacements) ] ] ]

---------------------------------------------------------------------------
(* Filenames *)

InvalidChars_no_pipe == { "<", ">", ":", "\"", "/", "\\", "?", "*" }

\* the character class of the re.sub of generate_filename
InvalidChars == { "<", ">", ":", "\"", "/", "\\", "|", "?", "*" }

\* re.sub(r'[<>:"/\\|?*]', "_", filename)
Sanitize(filename) ==
    [ i \in DOMAIN filename |->
        IF filename[i] \in InvalidChars THEN "_" ELSE filename[i] ]

OrderDefault(i) == <<"o", "r", "d", "e", "r", "_">> \o IntToStr(i)

CustomerDefault(i) == <<"c", "u", "s", "t", "o", "m", "e", "r", "_">> \o IntToStr(i)

DocxExt == <<".", "d", "o", "c", "x">>

generate_filename_name_only(row_data, i) ==
    Sanitize(StrReplace(Str(Get(row_data, "name", CustomerDefault(i))), <<" ">>, <<"_">>)
             \o DocxExt)

generate_filename(row_data, i) ==
    LET order_code    == StrReplace(Str(Get(row_data, "order_code", OrderDefault(i))),
                                    <<"/">>, <<"_">>)
        customer_name == StrReplace(Str(Get(row_data, "name", CustomerDefault(i))),
                                    <<" ">>, <<"_">>)
    IN  Sanitize(order_code \o <<"_">> \o customer_name \o DocxExt)

---------------------------------------------------------------------------
(* Documents and files *)

EmptyPart == [ paragraphs |-> <<>>, tables |-> <<>> ]

EmptyDoc == [ paragraphs |-> <<>>, tables |-> <<>>, sections |-> <<>> ]

\* a document with one section
MkDoc(paragraphs, tables, header, footer) ==
    [ paragraphs |-> paragraphs, tables |-> tables,
      sections |-> << [ header |-> header, footer |-> footer ] >> ]

\* what doc.save(path) leaves on disk when it completes
DocxFile(doc) == [ kind |-> "docx", doc |-> doc ]

\* what a save that fails midway may leave on disk
PartialFile == [ kind |-> "partial", doc |-> EmptyDoc ]

\* the reference of the object Document(temp_path) creates: one not in use
NewDocRef_alias(h, t) == t

NewDocRef(h, t) == CHOOSE r \in 1..(Cardinality(DOMAIN h) + 1) : r \notin DOMAIN h

\* new_doc.save(output_path) overwrites what is at the path
SaveDocument_skip(fs, filename, doc) == fs

SaveDocument(fs, filename, doc) == (filename :> DocxFile(doc)) @@ fs

\* create_docx_from_template as a whole: the outcome is where the
\* environment raises ("none": nowhere), and partial tells whether a failing
\* save left a partial file.  Gives the return value and the heap,
\* temp_template.docx and generated_documents it leaves.
create_docx_from_template(h, t, temp, fs, row_data, filename, outcome, partial) ==
    LET saved    == DocxFile(h[t])
        new_doc  == NewDocRef(h, t)
        h1       == (new_doc :> saved.doc) @@ h
        h2       == [ h1 EXCEPT ![new_doc] =
                        find_and_replace_in_document(@, Replacements(row_data)) ]
        kept(hh) == [ r \in DOMAIN h |-> hh[r] ]
    IN  CASE outcome = "save_temp" ->
               [ ok |-> FALSE, heap |-> h,
                 temp |-> IF partial THEN <<PartialFile>> ELSE temp, files |-> fs ]
          [] outcome = "reload" ->
               [ ok |-> FALSE, heap |-> h, temp |-> <<saved>>, files |-> fs ]
          [] outcome = "substitute" ->
               [ ok |-> FALSE, heap |-> kept(h1), temp |-> <<>>, files |-> fs ]
          [] outcome = "save_output" ->
               [ ok |-> FALSE, heap |-> kept(h2), temp |-> <<>>,
                 files |-> IF partial THEN (filename :> PartialFile) @@ fs ELSE fs ]
          [] outcome = "none" ->
               [ ok |-> TRUE, heap |-> kept(h2), temp |-> <<>>,
                 files |-> SaveDocument(fs, filename, h2[new_doc]) ]

\* the two counters after one row
NextSuccessful(count, created) == IF created THEN count + 1 ELSE count

NextFailed_lost(count, created) == count

NextFailed(count, created) == IF created THEN count ELSE count + 1

\* where main is after a row: the for loop goes on whatever the row's result
AfterRow_break(created) == IF created THEN "loop" ELSE "done"

AfterRow(created) == "loop"

---------------------------------------------------------------------------
(* main *)

\* os.makedirs(output_directory) when it does not exist
MakeOutputDirectory ==
    /\ pc = "start"
    /\ output_dir' = TRUE
    /\ pc' = "read_template"
    /\ UNCHANGED <<template_file, csv_file, heap, template_doc, df, index,
                   successful_count, failed_count, temp_file, files, log, fault>>

\* read_template_docx returns the document
ReadTemplateOk ==
    /\ pc = "read_template"
    /\ template_doc' = 1
    /\ heap' = (1 :> template_file)
    /\ pc' = "read_csv"
    /\ UNCHANGED <<output_dir, template_file, csv_file, df, index,
                   successful_count, failed_count, temp_file, files, log, fault>>

\* read_template_docx returns None: main returns
ReadTemplateFails ==
    /\ pc = "read_template"
    /\ pc' = "exit"
    /\ UNCHANGED <<output_dir, template_file, csv_file, heap, template_doc, df, index,
                   successful_count, failed_count, temp_file, files, log, fault>>

\* read_csv_file returns the DataFrame; the counters are set to 0
ReadCsvOk ==
    /\ pc = "read_csv"
    /\ df' = read_csv_file(csv_file)
    /\ successful_count' = 0
    /\ failed_count' = 0
    /\ index' = 0
    /\ pc' = "loop"
    /\ UNCHANGED <<output_dir, template_file, csv_file, heap, template_doc,
                   temp_file, files, log, fault>>

\* read_csv_file returns None: main returns
ReadCsvFails ==
    /\ pc = "read_csv"
    /\ pc' = "exit"
    /\ UNCHANGED <<output_dir, template_file, csv_file, heap, template_doc, df, index,
                   successful_count, failed_count, temp_file, files, log, fault>>

\* one iteration of the loop over df.iterrows(), given what the environment
\* does to this row's create_docx_from_template
ProcessRow(outcome, partial) ==
    LET row      == df[index + 1]
        filename == generate_filename(row, index + 1)
        res      == create_docx_from_template(heap, template_doc, temp_file, files,
                                              row, filename, outcome, partial)
    IN  /\ heap' = res.heap
        /\ temp_file' = res.temp
        /\ files' = res.files
        /\ successful_count' = NextSuccessful(successful_count, res.ok)
        /\ failed_count' = NextFailed(failed_count, res.ok)
        /\ log' = Append(log, [ kind |-> IF res.ok THEN "created" ELSE "failed",
                                filename |-> filename ])
        /\ fault' = outcome
        /\ index' = index + 1
        /\ pc' = AfterRow(res.ok)
        /\ UNCHANGED <<output_dir, template_file, csv_file, template_doc, df>>

\* the row's document is created
RowCreated ==
    /\ pc = "loop" /\ index < Len(df)
    /\ ProcessRow("none", FALSE)

\* template_doc.save(temp_path) raises
SaveTempFails ==
    /\ pc = "loop" /\ index < Len(df)
    /\ \E partial \in BOOLEAN : ProcessRow("save_temp", partial)

\* Document(temp_path) raises
ReloadFails ==
    /\ pc = "loop" /\ index < Len(df)
    /\ ProcessRow("reload", FALSE)

\* find_and_replace_in_document raises
SubstituteFails ==
    /\ pc = "loop" /\ index < Len(df)
    /\ ProcessRow("substitute", FALSE)

\* new_doc.save(output_path) raises
SaveOutputFails ==
    /\ pc = "loop" /\ index < Len(df)
    /\ \E partial \in BOOLEAN : ProcessRow("save_output", partial)

\* the loop is over: the summary is printed
PrintSummary ==
    /\ pc = "loop"
    /\ index = Len(df)
    /\ pc' = "done"
    /\ UNCHANGED <<output_dir, template_file, csv_file, heap, template_doc, df, index,
                   successful_count, failed_count, temp_file, files, log, fault>>

Next ==
    \/ MakeOutputDirectory
    \/ ReadTemplateOk
    \/ ReadTemplateFails
    \/ ReadCsvOk
    \/ ReadCsvFails
    \/ RowCreated
    \/ SaveTempFails
    \/ ReloadFails
    \/ SubstituteFails
    \/ SaveOutputFails
    \/ PrintSummary

---------------------------------------------------------------------------
(* Inputs *)

\* a row of csv.csv over the given columns, cells as raw text
CsvRow(columns, a, p, o, n) ==
    LET full == [ address |-> a, phone |-> p, order_code |-> o, name |-> n ]
    IN  [ c \in columns |-> full[c] ]

\* the template of the end-to-end scenario: two placeholders in a paragraph
\* (in two runs), one in a table cell, and a bare label in the header
MergeTemplate ==
    MkDoc(<< << BracketLabel("order_code"), <<":", " ">> \o BracketLabel("name") >> >>,
          << << << << << BracketLabel("address") >> >> >> >> >>,
          [ paragraphs |-> << << BareLabel("phone") >> >>, tables |-> <<>> ],
          EmptyPart)

\* the text around the placeholders of EightForms
Lit(c) == <<c>>

\* a template holding the eight placeholder forms, with br[f] and bare[f]
\* standing where the bracketed and the bare form of field f stand
EightForms(br, bare) ==
    MkDoc(<< << Lit("(") \o br["address"] \o Lit(")"), br["phone"] \o Lit("-") \o br["phone"] >>,
             << bare["name"] >> >>,
          << << << << << br["order_code"] \o Lit("+") \o bare["order_code"] >> >> >> >> >>,
          [ paragraphs |-> << << bare["address"] \o Lit(";") >> >>, tables |-> <<>> ],
          [ paragraphs |-> <<>>,
            tables |-> << << << << << br["name"], Lit("=") \o bare["phone"] >> >> >> >> >> ])

EightFormsTemplate ==
    EightForms([ f \in Fields |-> BracketLabel(f) ], [ f \in Fields |-> BareLabel(f) ])

\* a paragraph of two runs holding the bracketed placeholder of f cut after
\* its k-th character (k = 0 and k = Len leave one run empty)
SplitRuns(f, k) ==
    << SubSeq(BracketLabel(f), 1, k),
       SubSeq(BracketLabel(f), k + 1, Len(BracketLabel(f))) >>

SplitTemplate(f, k) == MkDoc(<< SplitRuns(f, k) >>, <<>>, EmptyPart, EmptyPart)

SplitTemplates ==
    UNION { { SplitTemplate(f, k) : k \in 0..Len(BracketLabel(f)) } : f \in Fields }

\* a paragraph whose only run is the bare label of f
BareTemplate(f) == MkDoc(<< << BareLabel(f) >> >>, <<>>, EmptyPart, EmptyPart)

SubstTemplates ==
    SplitTemplates \cup { BareTemplate(f) : f \in Fields } \cup { EightFormsTemplate }

CsvFile(columns, rows) == [ columns |-> columns, rows |-> rows ]

AllColumns == Fields

\* the tables of the batch runs: up to MaxRows rows over four records, all
\* columns present
BatchRecords ==
    { CsvRow(AllColumns, <<"Q">>, <<"0", "9">>, r[1], r[2]) :
        r \in { << <<"a", "/", "b">>, <<"x", " ", "y">> >>,
                << <<"a">>,           <<"b", " ", "x", " ", "y">> >>,
                << <<"c">>,           <<"x", " ", "y">> >>,
                << <<"d">>,           <<"x", "_", "y">> >> } }

BatchTables ==
    { CsvFile(AllColumns, rows) :
        rows \in UNION { [ 1..n -> BatchRecords ] : n \in 0..MaxRows } }

\* the one-row tables of the substitution runs: values that are plain, empty,
\* "NA", or the text of another field's label; columns present or absent
SubstColumns == { AllColumns, AllColumns \ { "address" }, {} }

SubstTables ==
    { CsvFile(cols, << CsvRow(cols, a, p, o, n) >>) :
        cols \in SubstColumns,
        a \in { <<"Q">>, BareLabel("name"), <<>> },
        p \in { <<"0", "9">>, <<>> },
        o \in { <<"K">>, <<>> },
        n \in { <<"Z">>, <<"N", "A">> } }

\* the tables of the filename runs: 1 to MaxRows copies of one row whose order
\* code and name hold the characters generate_filename rewrites, or are empty
NameColumns ==
    { AllColumns, AllColumns \ { "order_code" }, AllColumns \ { "order_code", "name" } }

NameTables ==
    { CsvFile(cols, [ i \in 1..n |-> CsvRow(cols, <<"Q">>, <<"0", "9">>, o, c) ]) :
        cols \in NameColumns,
        n \in 1..MaxRows,
        o \in { <<"a", "/", "b">>, <<"<", ":", "\"", "?">>, <<>> },
        c \in { <<"x", " ", "y">>, <<">", "\\", "|", "*", "/">>, <<>> } }

InitWith(templates, tables, dirs) ==
    /\ pc = "start"
    /\ output_dir \in dirs
    /\ template_file \in templates
    /\ csv_file \in tables
    /\ heap = <<>>
    /\ template_doc = 0
    /\ df = <<>>
    /\ index = 0
    /\ successful_count = 0
    /\ failed_count = 0
    /\ temp_file = <<>>
    /\ files = <<>>
    /\ log = <<>>
    /\ fault = "none"

\* a batch run over the scenario's template
Init == InitWith({ MergeTemplate }, BatchTables, BOOLEAN)

Spec == Init /\ [][Next]_vars

\* one row, over the templates that exercise the substitution
InitSubst == InitWith(SubstTemplates, SubstTables, { TRUE })

SpecSubst == InitSubst /\ [][Next]_vars

\* rows whose order code and name exercise generate_filename
InitName == InitWith({ MergeTemplate }, NameTables, { TRUE })

SpecName == InitName /\ [][Next]_vars

---------------------------------------------------------------------------
(* Properties *)

\* the i-th row was processed and its document created
Created(i) == i \in DOMAIN log /\ log[i].kind = "created"

\* what generated_documents holds under the i-th row's filename
OutputOf(i) == files[log[i].filename]

\* the document the code builds for a row from the template as loaded
Instantiated(row_data) ==
    find_and_replace_in_document(template_file, Replacements(row_data))

\* field f of the row is there and is a non-empty str
Present(row_data, f) == f \in DOMAIN row_data /\ row_data[f] \notin { NaN, <<>> }

Count(kind) == Cardinality({ i \in DOMAIN log : log[i].kind = kind })

\* C1: with all four fields present and non-empty, a template holding the
\* eight placeholder forms comes out with every placeholder replaced by
\* exactly the row's value of its field, and nothing else changed
C1_EveryPlaceholderGetsItsValue ==
    ( /\ pc = "done"
      /\ template_file = EightFormsTemplate
      /\ Created(1)
      /\ \A f \in Fields : Present(df[1], f) )
    => OutputOf(1) =
         DocxFile(EightForms([ f \in Fields |-> df[1][f] ], [ f \in Fields |-> df[1][f] ]))

\* C2: the placeholders of a field that is missing (column absent, or the
\* row's cell empty) are replaced by the empty string
C2_MissingFieldGivesEmpty ==
    ( pc = "done" /\ Created(1) ) =>
      /\ \A f \in Fields :
           ~Present(df[1], f) =>
             /\ template_file = SplitTemplate(f, 0)
                  => OutputOf(1).doc.paragraphs[1] = << <<>>, <<>> >>
             /\ template_file = BareTemplate(f)
                  => OutputOf(1).doc.paragraphs[1] = << <<>> >>
      /\ ( template_file = EightFormsTemplate /\ \A f \in Fields : ~Present(df[1], f) )
           => OutputOf(1).doc = EightForms([ f \in Fields |-> <<>> ], [ f \in Fields |-> <<>> ])

\* the cuts of the bracketed placeholder of f that leave text in both runs
Cuts(f) == 1..(Len(BracketLabel(f)) - 1)

\* the cuts strictly inside the label: neither run holds the whole bare label
InnerCuts(f) == 2..(Len(BracketLabel(f)) - 2)

\* C3 as stated: however the bracketed placeholder is cut between two
\* consecutive runs, both runs are unchanged
C3_SplitLeftUnreplaced ==
    \A f \in Fields : \A k \in Cuts(f) :
        ( pc = "done" /\ Created(1) /\ template_file = SplitTemplate(f, k) )
        => OutputOf(1).doc.paragraphs[1] = SplitRuns(f, k)

\* C3 amended: when the cut is strictly inside the label, both runs are
\* unchanged
C3_InnerSplitLeftUnreplaced ==
    \A f \in Fields : \A k \in InnerCuts(f) :
        ( pc = "done" /\ Created(1) /\ template_file = SplitTemplate(f, k) )
        => OutputOf(1).doc.paragraphs[1] = SplitRuns(f, k)

C3_Witness ==
    /\ pc = "done" /\ Created(1)
    /\ \E k \in InnerCuts("address") : template_file = SplitTemplate("address", k)
    /\ Present(df[1], "address")
    /\ OutputOf(1).kind = "docx"
    /\ OutputOf(1).doc = template_file

\* the i-th row has no order code / no recipient name: column absent or cell empty
OrderMissing(i) == ~Present(df[i], "order_code")

NameMissing(i) == ~Present(df[i], "name")

\* C4: the filename starts with order_<i> when the row has no order code and
\* ends with customer_<i>.docx when it has no recipient name
C4_FallbackNaming ==
    \A i \in DOMAIN log :
        /\ OrderMissing(i) => IsPrefix(OrderDefault(i) \o <<"_">>, log[i].filename)
        /\ NameMissing(i) =>
             LET tail == <<"_">> \o CustomerDefault(i) \o DocxExt
                 name == log[i].filename
             IN  /\ Len(tail) <= Len(name)
                 /\ SubSeq(name, Len(name) - Len(tail) + 1, Len(name)) = tail
        /\ ( OrderMissing(i) /\ NameMissing(i) ) =>
             log[i].filename = OrderDefault(i) \o <<"_">> \o CustomerDefault(i) \o DocxExt

\* the characters no filename may hold
ForbiddenChars == { "<", ">", ":", "\"", "/", "\\", "|", "?", "*" }

\* C5: no filename generate_filename returns holds a forbidden character,
\* whatever the order code and the recipient name hold
C5_FilenameSanitized ==
    /\ \A i \in DOMAIN log : Range(log[i].filename) \cap ForbiddenChars = {}
    /\ \A name \in DOMAIN files : Range(name) \cap ForbiddenChars = {}

C5_Witness ==
    \E i \in DOMAIN log :
        /\ Created(i)
        /\ Present(df[i], "order_code") /\ Present(df[i], "name")
        /\ ForbiddenChars \subseteq ( Range(df[i]["order_code"]) \cup Range(df[i]["name"]) )

\* C6: a row is counted as failed exactly when its own instantiation failed;
\* a row whose instantiation did not fail is counted as succeeded and its
\* output is written; and a failure never ends the loop early
C6_FailureIsolation ==
    /\ ( pc \in { "loop", "done" } /\ index > 0 ) =>
         /\ Len(log) = index
         /\ ( log[index].kind = "failed" <=> fault # "none" )
         /\ fault = "none" =>
              /\ log[index].filename \in DOMAIN files
              /\ OutputOf(index) = DocxFile(Instantiated(df[index]))
    /\ pc \in { "loop", "done" } =>
         /\ successful_count = Count("created")
         /\ failed_count = Count("failed")
    /\ pc = "done" => Len(log) = Len(df)
    /\ pc = "exit" => log = <<>>

C6_Witness ==
    /\ pc = "done"
    /\ Len(log) >= 3
    /\ log[1].kind = "created" /\ log[2].kind = "failed" /\ log[3].kind = "created"
    /\ log[1].filename # log[2].filename /\ log[2].filename # log[3].filename
    /\ OutputOf(1).kind = "docx" /\ OutputOf(3).kind = "docx"
    /\ successful_count = 2 /\ failed_count = 1

\* C7: the loaded template keeps the text it had at load time, and every
\* document written is the one built from that template and its own row
C7_TemplateNeverMutated ==
    pc \in { "read_csv", "loop", "done" } =>
      /\ DOMAIN heap = { template_doc }
      /\ heap[template_doc] = template_file
      /\ \A name \in DOMAIN files :
           files[name].kind = "docx" =>
             \E i \in 1..index :
                /\ log[i].filename = name
                /\ files[name] = DocxFile(Instantiated(df[i]))

C7_Witness ==
    /\ pc = "done"
    /\ Len(log) >= 3
    /\ Created(1) /\ ~Created(2) /\ Created(3)
    /\ df[1] # df[3]
    /\ OutputOf(1) # OutputOf(3)

PairwiseDistinct(f) ==
    \A i, j \in DOMAIN df : i # j => df[i][f] # df[j][f]

\* every row's file is there, populated with that row's values
EachRowWritten ==
    \A i \in DOMAIN df :
        /\ log[i].filename \in DOMAIN files
        /\ OutputOf(i) = DocxFile(Instantiated(df[i]))

\* C8 as stated: N rows with pairwise distinct order codes and pairwise
\* distinct recipient names, none failing, give exactly N files, one per row
C8_DistinctRowsDistinctFiles ==
    ( /\ pc = "done"
      /\ failed_count = 0
      /\ PairwiseDistinct("order_code")
      /\ PairwiseDistinct("name") )
    => /\ Cardinality(DOMAIN files) = Len(df)
       /\ EachRowWritten

\* an order code generate_filename leaves as it is, and that holds no "_"
PlainCode(code) ==
    /\ code \notin { NaN, <<>> }
    /\ Range(code) \cap ( ForbiddenChars \cup { "_" } ) = {}

\* C8 amended: the same, when moreover every order code is a non-empty str
\* holding neither "_" nor a character generate_filename rewrites to "_"
C8_PlainCodesDistinctFiles ==
    ( /\ pc = "done"
      /\ failed_count = 0
      /\ PairwiseDistinct("order_code")
      /\ PairwiseDistinct("name")
      /\ \A i \in DOMAIN df : PlainCode(df[i]["order_code"]) )
    => /\ Cardinality(DOMAIN files) = Len(df)
       /\ EachRowWritten

C8_Witness ==
    /\ pc = "done"
    /\ failed_count = 0
    /\ Len(df) = 3
    /\ PairwiseDistinct("order_code")
    /\ PairwiseDistinct("name")
    /\ \A i \in DOMAIN df : PlainCode(df[i]["order_code"])
    /\ Cardinality(DOMAIN files) = 3

\* C9: whenever create_docx_from_template has returned, temp_template.docx
\* does not exist
C9_TempFileReleased ==
    pc \in { "loop", "done" } => temp_file = <<>>

\* C10: the two counters add up to the number of rows gone through, each row
\* adds one to exactly one of them, and at the end the sum is the row count
C10_Tally ==
    /\ pc \in { "loop", "done" } =>
         /\ successful_count + failed_count = index
         /\ Len(log) = index
         /\ index <= Len(df)
         /\ successful_count = Cardinality({ i \in 1..index : log[i].kind = "created" })
         /\ failed_count = Cardinality({ i \in 1..index : log[i].kind # "created" })
    /\ pc = "done" => successful_count + failed_count = Len(df)

C10_Witness ==
    /\ pc = "done"
    /\ Len(df) >= 2
    /\ successful_count >= 1
    /\ failed_count >= 1

===========================================================================
